---- MODULE Spec2Model ----
(***************************************************************************)
(* GogglesTransform.__call__ of goggles.py as a state machine.             *)
(*                                                                         *)
(* Numbers.  Landmark coordinates are whole pixels.  Every float the code  *)
(* computes from them is kept in fixed point: lengths and positions in     *)
(* hundredths of a pixel ("centi-pixels"), the slope and radians in        *)
(* ten-thousandths, the angle in hundredths of a degree.  int() truncates  *)
(* toward zero, as Python's does.                                          *)
(*                                                                         *)
(* Objects.  Call c is handed image object c; no two calls share an image. *)
(* The locals of a call live in its own frame.                             *)
(***************************************************************************)
EXTENDS Integers, Sequences, FiniteSets, TLC

VARIABLES
    sample,     \* sample[o]: the pixels of image object o
    entry,      \* entry[c]: the pixels of call c's image when the call began
    detection,  \* detection[c]: what detect_faces yields for call c's image
    pc,         \* pc[c]: the line call c executes next
    frame,      \* frame[f]: the locals of the call whose frame is f
    result      \* result[c]: how call c ended, and the object it returned

vars == <<sample, entry, detection, pc, frame, result>>

(***************************************************************************)
(* Bounds of the model.                                                    *)
(***************************************************************************)
NegCoord == 3
HalfCoord == 5
MaxLandmarks == 10
ImgW == 8
ImgH == 6

Calls == {1, 2}

(***************************************************************************)
(* Arithmetic helpers.                                                     *)
(***************************************************************************)
Abs(x) == IF x < 0 THEN -x ELSE x

\* Division truncating toward zero: Python's int(a / b).
TruncDiv(a, b) ==
    LET q == Abs(a) \div Abs(b)
    IN  IF (a < 0) # (b < 0) THEN -q ELSE q

Floor100(x) == x \div 100
Ceil100(x) == -((-x) \div 100)

RECURSIVE SqrtSearch(_, _, _)
SqrtSearch(n, lo, hi) ==
    IF lo >= hi THEN lo
    ELSE IF ((lo + hi + 1) \div 2) * ((lo + hi + 1) \div 2) <= n
         THEN SqrtSearch(n, (lo + hi + 1) \div 2, hi)
         ELSE SqrtSearch(n, lo, ((lo + hi + 1) \div 2) - 1)

\* floor(sqrt(n)) for 0 <= n < 2^31
ISqrt(n) == SqrtSearch(n, 0, IF n < 46340 THEN n ELSE 46340)

Max4(a, b, c, d) ==
    LET m1 == IF a > b THEN a ELSE b
        m2 == IF c > d THEN c ELSE d
    IN  IF m1 > m2 THEN m1 ELSE m2

Min4(a, b, c, d) == -Max4(-a, -b, -c, -d)

\* math.pi in ten-thousandths
PiFix == 31416

\* sin and cos of x ten-thousandths of a radian, 0 <= x <= pi/2, by Taylor series
SinQ(x) ==
    LET x2 == (x * x) \div 10000
        t3 == ((x * x2) \div 10000) \div 6
        t5 == ((t3 * x2) \div 10000) \div 20
        t7 == ((t5 * x2) \div 10000) \div 42
        t9 == ((t7 * x2) \div 10000) \div 72
        s  == x - t3 + t5 - t7 + t9
    IN  IF s > 10000 THEN 10000 ELSE s

CosQ(x) ==
    LET x2 == (x * x) \div 10000
        t2 == x2 \div 2
        t4 == ((t2 * x2) \div 10000) \div 12
        t6 == ((t4 * x2) \div 10000) \div 30
        t8 == ((t6 * x2) \div 10000) \div 56
        s  == 10000 - t2 + t4 - t6 + t8
    IN  IF s < 0 THEN 0 ELSE s

Sin(r) ==
    LET x == r % (2 * PiFix)
        h == PiFix \div 2
    IN  IF x <= h THEN SinQ(x)
        ELSE IF x <= PiFix THEN SinQ(PiFix - x)
        ELSE IF x <= PiFix + h THEN -SinQ(x - PiFix)
        ELSE -SinQ(2 * PiFix - x)

Cos(r) ==
    LET x == r % (2 * PiFix)
        h == PiFix \div 2
    IN  IF x <= h THEN CosQ(x)
        ELSE IF x <= PiFix THEN -CosQ(PiFix - x)
        ELSE IF x <= PiFix + h THEN -CosQ(x - PiFix)
        ELSE CosQ(2 * PiFix - x)

(***************************************************************************)
(* Images.                                                                 *)
(***************************************************************************)
Pixels == (0 .. ImgW - 1) \X (0 .. ImgH - 1)

Plain == [p \in Pixels |-> "White"]
Checker == [p \in Pixels |-> IF (p[1] + p[2]) % 2 = 0 THEN "Black" ELSE "LightGray"]
Images == {Plain, Checker}

\* Image.new("RGBA", size, color=LightGray): every pixel opaque light gray.
\* A rectangle is kept as the size of its canvas, the size of the solid
\* rectangle it was made from, and the affine map (a, b, c, d, e, f), in
\* ten-thousandths with c and f in centi-pixels, that takes a canvas point
\* to a point of that solid rectangle.
ImageNew(w, h) ==
    [size |-> <<w, h>>, src |-> <<w, h>>, matrix |-> <<10000, 0, 0, 0, 10000, 0>>]

\* Pillow's transform(x, y, matrix), on centi-pixels
Transform(x, y, m) ==
    << ((m[1] * x + m[2] * y) \div 10000) + m[3],
       ((m[4] * x + m[5] * y) \div 10000) + m[6] >>

\* the matrix of a rotation by rad ten-thousandths of a radian
RotationMatrix(rad) == <<Cos(rad), Sin(rad), 0, -Sin(rad), Cos(rad), 0>>

\* m with its offsets (c, f) replaced by t
WithOffset(m, t) == <<m[1], m[2], t[1], m[4], m[5], t[2]>>

\* the rotation m taken about the point (cx, cy)
AboutCenter(m, cx, cy) ==
    WithOffset(m, <<Transform(-cx, -cy, m)[1] + cx, Transform(-cx, -cy, m)[2] + cy>>)

\* the extent, in whole pixels, of the w x h rectangle's corners under m, on axis k
Span(w, h, m, k) ==
    Ceil100(Max4(Transform(0, 0, m)[k], Transform(100 * w, 0, m)[k],
                 Transform(100 * w, 100 * h, m)[k], Transform(0, 100 * h, m)[k]))
    - Floor100(Min4(Transform(0, 0, m)[k], Transform(100 * w, 0, m)[k],
                    Transform(100 * w, 100 * h, m)[k], Transform(0, 100 * h, m)[k]))

\* expand=True: the canvas grows to nw x nh and the map is re-centred
Expand(rect, m, nw, nh) ==
    [size |-> <<nw, nh>>, src |-> rect.src,
     matrix |-> WithOffset(m, Transform(-(50 * (nw - rect.size[1])),
                                        -(50 * (nh - rect.size[2])), m))]

\* Image.rotate's own angle: -math.radians(deg % 360), deg in centi-degrees
Radians(deg) == -(((deg % 36000) * PiFix) \div 18000)

\* the rotation about (cx, cy) that Image.rotate(deg, center=(cx, cy)) applies
RotateMap(deg, cx, cy) == AboutCenter(RotationMatrix(Radians(deg)), cx, cy)

\* the rectangle of canvas rect.size drawn through m, on a canvas that fits it
Fit(rect, m) ==
    Expand(rect, m, Span(rect.size[1], rect.size[2], m, 1),
                    Span(rect.size[1], rect.size[2], m, 2))

\* Image.rotate(deg, expand=True, center=(cx, cy)): deg in centi-degrees,
\* the center in centi-pixels.
ImageRotate(rect, deg, cx, cy) == Fit(rect, RotateMap(deg, cx, cy))

\* Whether canvas pixel (i, j) of rect is opaque (nearest-neighbour sampling
\* at the pixel's centre; outside the solid rectangle the canvas is clear).
Opaque(rect, i, j) ==
    LET q == Transform(100 * i + 50, 100 * j + 50, rect.matrix)
    IN  /\ 0 <= i /\ i < rect.size[1]
        /\ 0 <= j /\ j < rect.size[2]
        /\ 0 <= q[1] /\ q[1] < 100 * rect.src[1]
        /\ 0 <= q[2] /\ q[2] < 100 * rect.src[2]

\* Image.paste(rect, box, rect): rect's alpha is the mask, clipped to img.
ImagePaste(img, rect, box) ==
    [p \in Pixels |->
        IF Opaque(rect, p[1] - box[1], p[2] - box[2]) THEN "LightGray" ELSE img[p]]

(***************************************************************************)
(* Detector results: (bounding_boxes, landmarks), landmarks one list per   *)
(* face.  A face's list holds its eye and nose coordinates at positions    *)
(* 0, 1, 2 (x) and 5, 6, 7 (y) as far as it is long enough, and a filler   *)
(* elsewhere.                                                              *)
(***************************************************************************)
FaceList(lx, rx, nx, ly, ry, ny, fill, n) ==
    [i \in 1 .. n |->
        CASE i = 1 -> lx [] i = 2 -> rx [] i = 3 -> nx
          [] i = 6 -> ly [] i = 7 -> ry [] i = 8 -> ny
          [] OTHER -> fill]

EyeXs == {-NegCoord, 0, HalfCoord, 2 * HalfCoord}
EyeYs == {0, HalfCoord, 2 * HalfCoord}
NoseXs == {0, HalfCoord}
NoseYs == {HalfCoord, 2 * HalfCoord}
Fills == {0, HalfCoord}

FirstFaces ==
    {FaceList(lx, rx, nx, ly, ry, ny, fill, n) :
        lx \in EyeXs, rx \in EyeXs, nx \in NoseXs,
        ly \in EyeYs, ry \in EyeYs, ny \in NoseYs,
        fill \in Fills, n \in 0 .. MaxLandmarks}

\* the second and later faces: none, or one whose list is too short to index
LaterFaces == {<<>>, << <<HalfCoord, HalfCoord>> >>}
Boxes == {<<>>, << <<0, 0, HalfCoord, HalfCoord>> >>}

\* rest: pairs of bounding_boxes and later faces
DetectionsOf(firsts, rest) ==
    {[bounding_boxes |-> r[1], landmarks |-> <<>>] : r \in rest}
    \cup {[bounding_boxes |-> r[1], landmarks |-> <<f>> \o r[2]] :
            f \in firsts, r \in rest}

Detections == DetectionsOf(FirstFaces, Boxes \X LaterFaces)

\* the detector results of the two-call specification
ParFaces ==
    {FaceList(0, rx, HalfCoord, 0, ry, HalfCoord, fill, n) :
        rx \in {0, HalfCoord, 2 * HalfCoord}, ry \in {HalfCoord},
        fill \in Fills, n \in {7, 8, MaxLandmarks}}

ParDetections ==
    DetectionsOf(ParFaces, {r \in Boxes \X LaterFaces : Len(r[1]) = Len(r[2])})

NoDetection == [bounding_boxes |-> <<>>, landmarks |-> <<>>]

(***************************************************************************)
(* The locals of a call.                                                   *)
(***************************************************************************)
NoFrame ==
    [bounding_boxes |-> <<>>, landmarks |-> <<>>,
     left_eye_x |-> 0, left_eye_y |-> 0, right_eye_x |-> 0, right_eye_y |-> 0,
     nose_x |-> 0, nose_y |-> 0, middle_eyes_x |-> 0, middle_eyes_y |-> 0,
     googles_width |-> 0, googles_height |-> 0, rectangle |-> ImageNew(0, 0),
     middle_rectangle_x |-> 0, middle_rectangle_y |-> 0,
     angle |-> 0, rotation |-> 0, final_size |-> <<0, 0>>, box |-> <<0, 0>>]

\* every call keeps its locals in one shared place
SharedLocals(c) == 1

\* the frame that holds call c's locals: its own
Locals(c) == c

\* the image object call c was handed as `sample`
Sample(c) == c

\* nose_x read from entry 3
LandmarkAtShifted(face, i) == face[IF i = 2 THEN 4 ELSE i + 1]

\* landmarks[0][i]
LandmarkAt(face, i) == face[i + 1]

\* the indices lines 12-17 read
ReadIndices == {0, 5, 1, 6, 2, 7}

\* whether face[i] is in range
InRange(face, i) == i < Len(face)

\* the emptiness test made on bounding_boxes
FaceFoundByBoxes(f) == Len(f.bounding_boxes) # 0

\* line 10: whether the call goes on past the no-face return
FaceFound(f) == Len(f.landmarks) # 0

\* whether lines 12-17 raise IndexError
IndexFails(f) ==
    \/ Len(f.landmarks) = 0
    \/ \E i \in ReadIndices : ~InRange(f.landmarks[1], i)

\* the divisor taken from the y coordinates
DivisorY(f) == f.right_eye_y - f.left_eye_y

\* line 24's divisor
Divisor(f) == f.right_eye_x - f.left_eye_x

\* a value other than the image object passed in
ReturnedOther(c) == 0

\* the object lines 11 and 28 return
Returned(c) == Sample(c)

Pending == [kind |-> "pending", value |-> 0]

TypeOK ==
    /\ \A c \in Calls : \A p \in Pixels : sample[c][p] \in {"White", "Black", "LightGray"}
    /\ pc \in [Calls -> {"idle", "detect", "check", "geometry", "angle",
                         "rotate", "paste", "return", "done", "fault"}]
    /\ result \in [Calls -> [kind : {"pending", "returned", "IndexError",
                                     "ZeroDivisionError"},
                             value : {0} \cup Calls]]

Init ==
    /\ \E img \in Images : sample = [c \in Calls |-> IF c = 1 THEN img ELSE Plain]
    /\ entry = sample
    /\ \E d \in Detections :
           detection = [c \in Calls |-> IF c = 1 THEN d ELSE NoDetection]
    /\ pc = [c \in Calls |-> IF c = 1 THEN "detect" ELSE "idle"]
    /\ frame = [c \in Calls |-> NoFrame]
    /\ result = [c \in Calls |-> Pending]

InitPar ==
    /\ \E i1 \in Images, i2 \in Images : sample = [c \in Calls |-> IF c = 1 THEN i1 ELSE i2]
    /\ entry = sample
    /\ \E d1 \in ParDetections, d2 \in ParDetections :
           detection = [c \in Calls |-> IF c = 1 THEN d1 ELSE d2]
    /\ pc = [c \in Calls |-> "detect"]
    /\ frame = [c \in Calls |-> NoFrame]
    /\ result = [c \in Calls |-> Pending]

(***************************************************************************)
(* The float expressions of lines 18-24.                                   *)
(***************************************************************************)
\* the factors 2.2 and 1.5, in tenths
WidthTenths == 22
HeightTenths == 15

\* the left eye's coordinate in place of the midpoint
MiddleIsLeftEye(a, b) == 100 * b

\* (a + b) / 2, in centi-pixels
Middle(a, b) == (100 * (a + b)) \div 2

\* 2.2 * math.sqrt(dy ** 2 + dx ** 2), in centi-pixels, from whole pixels
GooglesWidth(dy, dx) == ISqrt(WidthTenths * WidthTenths * 100 * (dy * dy + dx * dx))

\* 1.5 * math.sqrt(dy ** 2 + dx ** 2), in centi-pixels, from centi-pixels
GooglesHeight(dy, dx) == ISqrt((HeightTenths * HeightTenths * (dy * dy + dx * dx)) \div 100)

\* dy / dx, in ten-thousandths
Slope(dy, dx) == TruncDiv(10000 * dy, dx)

\* the slope taken as degrees, without the factor 180 / math.pi
AngleWithoutFactor(dy, dx) == Slope(dy, dx) \div 100

\* dy / dx * 180 / math.pi, in centi-degrees (18000 / PiFix = 2250 / (PiFix / 8))
Angle(dy, dx) == TruncDiv(Slope(dy, dx) * 2250, PiFix \div 8)

\* the angle handed to rotate
Rotation(angle) == -angle

\* int(middle - size): the size not halved
BoxCoordNotHalved(middle, size) == TruncDiv(middle - 100 * size, 100)

\* int(middle - size / 2): one coordinate of the paste box
BoxCoord(middle, size) == TruncDiv(middle - 50 * size, 100)

(***************************************************************************)
(* The steps of a call.                                                    *)
(***************************************************************************)
\* line 9
Detect(c) ==
    /\ pc[c] = "detect"
    /\ frame' = [frame EXCEPT ![Locals(c)].bounding_boxes = detection[c].bounding_boxes,
                              ![Locals(c)].landmarks = detection[c].landmarks]
    /\ pc' = [pc EXCEPT ![c] = "check"]
    /\ UNCHANGED <<sample, entry, detection, result>>

\* lines 10-11
NoFace(c) ==
    /\ pc[c] = "check"
    /\ ~FaceFound(frame[Locals(c)])
    /\ result' = [result EXCEPT ![c] = [kind |-> "returned", value |-> Returned(c)]]
    /\ pc' = [pc EXCEPT ![c] = "done"]
    /\ UNCHANGED <<sample, entry, detection, frame>>

\* the IndexError caught and the image returned
IndexFaultRecovered(c) ==
    /\ pc[c] = "check"
    /\ FaceFound(frame[Locals(c)])
    /\ IndexFails(frame[Locals(c)])
    /\ result' = [result EXCEPT ![c] = [kind |-> "returned", value |-> Returned(c)]]
    /\ pc' = [pc EXCEPT ![c] = "done"]
    /\ UNCHANGED <<sample, entry, detection, frame>>

\* lines 12-17, when an index is out of range
IndexFault(c) ==
    /\ pc[c] = "check"
    /\ FaceFound(frame[Locals(c)])
    /\ IndexFails(frame[Locals(c)])
    /\ result' = [result EXCEPT ![c] = [kind |-> "IndexError", value |-> 0]]
    /\ pc' = [pc EXCEPT ![c] = "fault"]
    /\ UNCHANGED <<sample, entry, detection, frame>>

\* lines 12-17
ReadLandmarks(c) ==
    /\ pc[c] = "check"
    /\ FaceFound(frame[Locals(c)])
    /\ ~IndexFails(frame[Locals(c)])
    /\ LET face == frame[Locals(c)].landmarks[1]
       IN  frame' = [frame EXCEPT ![Locals(c)].left_eye_x = LandmarkAt(face, 0),
                                  ![Locals(c)].left_eye_y = LandmarkAt(face, 5),
                                  ![Locals(c)].right_eye_x = LandmarkAt(face, 1),
                                  ![Locals(c)].right_eye_y = LandmarkAt(face, 6),
                                  ![Locals(c)].nose_x = LandmarkAt(face, 2),
                                  ![Locals(c)].nose_y = LandmarkAt(face, 7)]
    /\ pc' = [pc EXCEPT ![c] = "geometry"]
    /\ UNCHANGED <<sample, entry, detection, result>>

\* lines 18-23 with the unrotated rectangle pasted at once, before line 24
GeometryThenPaste(c) ==
    /\ pc[c] = "geometry"
    /\ LET f  == frame[Locals(c)]
           mx == Middle(f.right_eye_x, f.left_eye_x)
           my == Middle(f.right_eye_y, f.left_eye_y)
           gw == GooglesWidth(f.right_eye_y - f.left_eye_y, f.right_eye_x - f.left_eye_x)
           gh == GooglesHeight(my - 100 * f.nose_y, mx - 100 * f.nose_x)
       IN  /\ frame' = [frame EXCEPT ![Locals(c)].middle_eyes_x = mx,
                                     ![Locals(c)].middle_eyes_y = my,
                                     ![Locals(c)].googles_width = gw,
                                     ![Locals(c)].googles_height = gh,
                                     ![Locals(c)].rectangle =
                                         ImageNew(TruncDiv(gw, 100), TruncDiv(gh, 100)),
                                     ![Locals(c)].middle_rectangle_x = gw \div 2,
                                     ![Locals(c)].middle_rectangle_y = gh \div 2]
           /\ sample' = [sample EXCEPT ![Sample(c)] =
                            ImagePaste(@, ImageNew(TruncDiv(gw, 100), TruncDiv(gh, 100)),
                                       <<BoxCoord(mx, TruncDiv(gw, 100)),
                                         BoxCoord(my, TruncDiv(gh, 100))>>)]
    /\ pc' = [pc EXCEPT ![c] = "angle"]
    /\ UNCHANGED <<entry, detection, result>>

\* lines 18-23
Geometry(c) ==
    /\ pc[c] = "geometry"
    /\ LET f  == frame[Locals(c)]
           mx == Middle(f.right_eye_x, f.left_eye_x)
           my == Middle(f.right_eye_y, f.left_eye_y)
           gw == GooglesWidth(f.right_eye_y - f.left_eye_y, f.right_eye_x - f.left_eye_x)
           gh == GooglesHeight(my - 100 * f.nose_y, mx - 100 * f.nose_x)
       IN  frame' = [frame EXCEPT ![Locals(c)].middle_eyes_x = mx,
                                  ![Locals(c)].middle_eyes_y = my,
                                  ![Locals(c)].googles_width = gw,
                                  ![Locals(c)].googles_height = gh,
                                  ![Locals(c)].rectangle =
                                      ImageNew(TruncDiv(gw, 100), TruncDiv(gh, 100)),
                                  ![Locals(c)].middle_rectangle_x = gw \div 2,
                                  ![Locals(c)].middle_rectangle_y = gh \div 2]
    /\ pc' = [pc EXCEPT ![c] = "angle"]
    /\ UNCHANGED <<sample, entry, detection, result>>

\* line 24, when the divisor is zero
AngleFault(c) ==
    /\ pc[c] = "angle"
    /\ Divisor(frame[Locals(c)]) = 0
    /\ result' = [result EXCEPT ![c] = [kind |-> "ZeroDivisionError", value |-> 0]]
    /\ pc' = [pc EXCEPT ![c] = "fault"]
    /\ UNCHANGED <<sample, entry, detection, frame>>

\* line 24
ComputeAngle(c) ==
    /\ pc[c] = "angle"
    /\ Divisor(frame[Locals(c)]) # 0
    /\ LET f == frame[Locals(c)]
       IN  frame' = [frame EXCEPT ![Locals(c)].angle =
                        Angle(f.right_eye_y - f.left_eye_y, Divisor(f))]
    /\ pc' = [pc EXCEPT ![c] = "rotate"]
    /\ UNCHANGED <<sample, entry, detection, result>>

\* lines 25-26
Rotate(c) ==
    /\ pc[c] = "rotate"
    /\ LET f == frame[Locals(c)]
           r == ImageRotate(f.rectangle, Rotation(f.angle),
                            f.middle_rectangle_x, f.middle_rectangle_y)
       IN  frame' = [frame EXCEPT ![Locals(c)].rotation = Rotation(f.angle),
                                  ![Locals(c)].rectangle = r,
                                  ![Locals(c)].final_size = r.size]
    /\ pc' = [pc EXCEPT ![c] = "paste"]
    /\ UNCHANGED <<sample, entry, detection, result>>

\* line 27
Paste(c) ==
    /\ pc[c] = "paste"
    /\ LET f   == frame[Locals(c)]
           box == <<BoxCoord(f.middle_eyes_x, f.final_size[1]),
                    BoxCoord(f.middle_eyes_y, f.final_size[2])>>
       IN  /\ frame' = [frame EXCEPT ![Locals(c)].box = box]
           /\ sample' = [sample EXCEPT ![Sample(c)] = ImagePaste(@, f.rectangle, box)]
    /\ pc' = [pc EXCEPT ![c] = "return"]
    /\ UNCHANGED <<entry, detection, result>>

\* line 28
Return(c) ==
    /\ pc[c] = "return"
    /\ result' = [result EXCEPT ![c] = [kind |-> "returned", value |-> Returned(c)]]
    /\ pc' = [pc EXCEPT ![c] = "done"]
    /\ UNCHANGED <<sample, entry, detection, frame>>

Next ==
    \E c \in Calls :
        \/ Detect(c)
        \/ NoFace(c)
        \/ IndexFault(c)
        \/ ReadLandmarks(c)
        \/ Geometry(c)
        \/ AngleFault(c)
        \/ ComputeAngle(c)
        \/ Rotate(c)
        \/ Paste(c)
        \/ Return(c)

\* one call
Spec == Init /\ [][Next]_vars

\* two calls, on two images, their steps interleaved
SpecPar == InitPar /\ [][Next]_vars

(***************************************************************************)
(* A call run alone, as one function of its image and detector result:     *)
(* how it ends, and the pixels its image is left with.                     *)
(***************************************************************************)
AloneFrame(d) ==
    [left_eye_x |-> LandmarkAt(d.landmarks[1], 0), left_eye_y |-> LandmarkAt(d.landmarks[1], 5),
     right_eye_x |-> LandmarkAt(d.landmarks[1], 1), right_eye_y |-> LandmarkAt(d.landmarks[1], 6),
     nose_x |-> LandmarkAt(d.landmarks[1], 2), nose_y |-> LandmarkAt(d.landmarks[1], 7)]

AloneRectangle(f, gw, gh) ==
    ImageRotate(ImageNew(TruncDiv(gw, 100), TruncDiv(gh, 100)),
                Rotation(Angle(f.right_eye_y - f.left_eye_y, Divisor(f))),
                gw \div 2, gh \div 2)

AlonePaste(img, f, r) ==
    ImagePaste(img, r,
               <<BoxCoord(Middle(f.right_eye_x, f.left_eye_x), r.size[1]),
                 BoxCoord(Middle(f.right_eye_y, f.left_eye_y), r.size[2])>>)

AlonePasted(img, f) ==
    AlonePaste(img, f,
        AloneRectangle(f,
            GooglesWidth(f.right_eye_y - f.left_eye_y, f.right_eye_x - f.left_eye_x),
            GooglesHeight(Middle(f.right_eye_y, f.left_eye_y) - 100 * f.nose_y,
                          Middle(f.right_eye_x, f.left_eye_x) - 100 * f.nose_x)))

Alone(img, d) ==
    IF ~FaceFound(d) THEN <<"returned", img>>
    ELSE IF IndexFails(d) THEN <<"IndexError", img>>
    ELSE IF Divisor(AloneFrame(d)) = 0 THEN <<"ZeroDivisionError", img>>
    ELSE <<"returned", AlonePasted(img, AloneFrame(d))>>

(***************************************************************************)
(* Vocabulary of the properties.                                           *)
(***************************************************************************)
Ended(c) == pc[c] \in {"done", "fault"}
Started(c) == pc[c] # "idle"

\* the detector found at least one face for call c's image
HasFace(c) == Len(detection[c].landmarks) > 0
Face(c) == detection[c].landmarks[1]

\* how call c ended and the pixels of its image
Outcome(c) == <<result[c].kind, sample[c]>>

\* call c has executed the paste of line 27 (a call that found no face goes
\* from line 11 straight to "done")
Pasted(c) == HasFace(c) /\ pc[c] \in {"return", "done"}

\* call c has executed line 24 without a fault
AngleKnown(c) == HasFace(c) /\ pc[c] \in {"rotate", "paste", "return", "done"}

\* call c has executed lines 25-26
Rotated(c) == HasFace(c) /\ pc[c] \in {"paste", "return", "done"}

\* call c has executed line 22
RectangleMade(c) ==
    HasFace(c) /\ pc[c] \in {"angle", "rotate", "paste", "return", "done"}

(***************************************************************************)
(* C1.  When the detector returns an empty landmark list, whatever the     *)
(* bounding boxes, the call raises no fault and returns the input image    *)
(* object with every pixel as it was at call entry.                        *)
(***************************************************************************)
C1_NoFaceIsNoOp ==
    \A c \in Calls :
        (Started(c) /\ ~HasFace(c)) =>
            /\ pc[c] # "fault"
            /\ result[c].kind \in {"pending", "returned"}
            /\ \A p \in Pixels : sample[c][p] = entry[c][p]
            /\ pc[c] = "done" =>
                  /\ result[c] = [kind |-> "returned", value |-> c]
                  /\ \A p \in Pixels : sample[result[c].value][p] = entry[c][p]

C1_Witness ==
    \E c \in Calls :
        /\ ~HasFace(c)
        /\ Len(detection[c].bounding_boxes) > 0
        /\ entry[c] = Checker
        /\ pc[c] = "done"

(***************************************************************************)
(* C2.  As claimed: whenever the first face's left-eye x equals its        *)
(* right-eye x, the call ends in ZeroDivisionError and returns no image.   *)
(***************************************************************************)
C2_EqualEyeXDividesByZero ==
    \A c \in Calls :
        (HasFace(c) /\ Len(Face(c)) >= 2 /\ Face(c)[1] = Face(c)[2]) =>
            /\ result[c].kind # "returned"
            /\ Ended(c) => result[c].kind = "ZeroDivisionError"

(***************************************************************************)
(* C2, amended.  Whenever the first face's list has at least the 8 entries *)
(* the code reads and its left-eye x equals its right-eye x, the call ends *)
(* in ZeroDivisionError and returns no image.                              *)
(***************************************************************************)
C2_EqualEyeXDividesByZeroWhenIndexed ==
    \A c \in Calls :
        (HasFace(c) /\ Len(Face(c)) >= 8 /\ Face(c)[1] = Face(c)[2]) =>
            /\ result[c].kind # "returned"
            /\ ~AngleKnown(c)
            /\ Ended(c) => (pc[c] = "fault" /\ result[c].kind = "ZeroDivisionError")

C2_Witness ==
    \E c \in Calls :
        /\ HasFace(c) /\ Len(Face(c)) >= 8
        /\ Face(c)[1] = Face(c)[2] /\ Face(c)[6] = Face(c)[7]
        /\ pc[c] = "fault"
        /\ result[c].kind = "ZeroDivisionError"

(***************************************************************************)
(* C3.  As claimed: whenever the first face's list has fewer than 10       *)
(* entries, the call ends in IndexError and returns no image.              *)
(***************************************************************************)
C3_ShortOfTenIsIndexError ==
    \A c \in Calls :
        (HasFace(c) /\ Len(Face(c)) < 10) =>
            /\ result[c].kind # "returned"
            /\ Ended(c) => result[c].kind = "IndexError"

(***************************************************************************)
(* C3, amended.  Whenever the first face's list has fewer than 8 entries   *)
(* (any length 0..7), the call ends in IndexError and returns no image.    *)
(***************************************************************************)
C3_ShortOfEightIsIndexError ==
    \A c \in Calls :
        (HasFace(c) /\ Len(Face(c)) < 8) =>
            /\ result[c].kind # "returned"
            /\ ~RectangleMade(c)
            /\ Ended(c) => (pc[c] = "fault" /\ result[c].kind = "IndexError")

C3_Witness ==
    \E c \in Calls :
        /\ HasFace(c) /\ Len(Face(c)) = 7
        /\ pc[c] = "fault"
        /\ result[c].kind = "IndexError"

(***************************************************************************)
(* The landmarks of the first face, read from the detector result, and the *)
(* squared distances the sizes are computed from, in whole pixels:         *)
(* EyesSq is d_eyes^2 and NoseSq4 is 4 * d_nose^2.                         *)
(***************************************************************************)
Lx(c) == Face(c)[1]
Rx(c) == Face(c)[2]
Nx(c) == Face(c)[3]
Ly(c) == Face(c)[6]
Ry(c) == Face(c)[7]
Ny(c) == Face(c)[8]

EyesSq(c) == (Rx(c) - Lx(c)) * (Rx(c) - Lx(c)) + (Ry(c) - Ly(c)) * (Ry(c) - Ly(c))
NoseSq4(c) ==
    (Lx(c) + Rx(c) - 2 * Nx(c)) * (Lx(c) + Rx(c) - 2 * Nx(c))
    + (Ly(c) + Ry(c) - 2 * Ny(c)) * (Ly(c) + Ry(c) - 2 * Ny(c))

\* w = floor(2.2 * sqrt(sq)), as 25 w^2 <= 121 sq < 25 (w + 1)^2
IsFloorOfWidth(w, sq) ==
    /\ w >= 0
    /\ 25 * w * w <= 121 * sq
    /\ 121 * sq < 25 * (w + 1) * (w + 1)

\* h = floor(1.5 * sqrt(sq4 / 4)), as 16 h^2 <= 9 sq4 < 16 (h + 1)^2
IsFloorOfHeight(h, sq4) ==
    /\ h >= 0
    /\ 16 * h * h <= 9 * sq4
    /\ 9 * sq4 < 16 * (h + 1) * (h + 1)

UnrotatedSizeIsFloored ==
    \A c \in Calls :
        RectangleMade(c) =>
            /\ IsFloorOfWidth(frame[c].rectangle.src[1], EyesSq(c))
            /\ IsFloorOfHeight(frame[c].rectangle.src[2], NoseSq4(c))
            /\ ~Rotated(c) => frame[c].rectangle.size = frame[c].rectangle.src

\* left-eye = (0, 0), right-eye = (10, 0), nose = (5, 10)
IsGeometryExample(c) ==
    /\ Lx(c) = 0 /\ Ly(c) = 0
    /\ Rx(c) = 10 /\ Ry(c) = 0
    /\ Nx(c) = 5 /\ Ny(c) = 10

(***************************************************************************)
(* C5.  As claimed: the unrotated rectangle has size (floor(2.2 * d_eyes), *)
(* floor(1.5 * d_nose)), and for left-eye = (0, 0), right-eye = (10, 0),   *)
(* nose = (5, 10) that is width 22 and height 16.                          *)
(***************************************************************************)
C5_SizeWithHeight16 ==
    /\ UnrotatedSizeIsFloored
    /\ \A c \in Calls :
          (RectangleMade(c) /\ IsGeometryExample(c)) =>
              frame[c].rectangle.src = <<22, 16>>

(***************************************************************************)
(* C5, amended.  The unrotated rectangle has size (floor(2.2 * d_eyes),    *)
(* floor(1.5 * d_nose)), d_nose the distance from the eye midpoint to the  *)
(* nose; for left-eye = (0, 0), right-eye = (10, 0), nose = (5, 10) the    *)
(* midpoint is (5, 0), d_nose is 10, and the size is width 22, height 15.  *)
(***************************************************************************)
C5_SizeWithHeight15 ==
    /\ UnrotatedSizeIsFloored
    /\ \A c \in Calls :
          (RectangleMade(c) /\ IsGeometryExample(c)) =>
              frame[c].rectangle.src = <<22, 15>>

C5_Witness ==
    \E c \in Calls :
        /\ pc[c] = "done"
        /\ HasFace(c)
        /\ IsGeometryExample(c)
        /\ frame[c].rectangle.src = <<22, 15>>

(***************************************************************************)
(* C6.  After the paste, the center of the pasted region, its top-left     *)
(* corner plus half the rotated overlay's size, is less than one pixel     *)
(* from the eye midpoint on each axis (compared here in centi-pixels).     *)
(***************************************************************************)
C6_PasteCenteredOnEyeMidpoint ==
    \A c \in Calls :
        Pasted(c) =>
            /\ frame[c].final_size = frame[c].rectangle.size
            /\ Abs(100 * frame[c].box[1] + 50 * frame[c].final_size[1]
                   - 50 * (Lx(c) + Rx(c))) < 100
            /\ Abs(100 * frame[c].box[2] + 50 * frame[c].final_size[2]
                   - 50 * (Ly(c) + Ry(c))) < 100

\* a pasted call whose eye midpoint has a negative, fractional x
C6_Witness ==
    \E c \in Calls :
        /\ pc[c] = "done"
        /\ HasFace(c)
        /\ Lx(c) + Rx(c) < 0
        /\ (Lx(c) + Rx(c)) % 2 = 1
        /\ frame[c].final_size[1] > 0 /\ frame[c].final_size[2] > 0
        /\ sample[c] # entry[c]

(***************************************************************************)
(* C7.  A call that returns, on the no-face branch or after the paste,     *)
(* returns the image object it was passed, and leaves the detector's       *)
(* bounding boxes and landmark lists and every other image as they were.   *)
(***************************************************************************)
C7_ReturnsSameObjectAndTouchesNothingElse ==
    \A c \in Calls :
        /\ pc[c] = "done" =>
              /\ result[c] = [kind |-> "returned", value |-> c]
              /\ frame[c].bounding_boxes = detection[c].bounding_boxes
              /\ frame[c].landmarks = detection[c].landmarks
        /\ pc[c] = "idle" => sample[c] = entry[c]

C7_Witness ==
    \E c \in Calls :
        /\ pc[c] = "done"
        /\ HasFace(c)
        /\ sample[c] # entry[c]
        /\ \E o \in Calls : pc[o] = "idle" /\ sample[o] = entry[o]

(***************************************************************************)
(* C9.  With eyes of distinct x, the angle is the slope times 180/pi (here *)
(* to within two hundredths of a degree), and the rectangle is rotated by  *)
(* its negative; the angle is 0 exactly when the eyes are level, and then  *)
(* the rotated overlay has the size of the unrotated one; for left-eye =   *)
(* (0, 0), right-eye = (10, 10) the angle is 57.29 degrees, not 45.        *)
(***************************************************************************)
C9_AngleIsSlopeInDegrees ==
    \A c \in Calls :
        /\ AngleKnown(c) =>
              /\ Rx(c) # Lx(c)
              /\ Abs(frame[c].angle * (PiFix \div 8)
                     - TruncDiv(22500000 * (Ry(c) - Ly(c)), Rx(c) - Lx(c)))
                    < 2 * (PiFix \div 8)
              /\ (frame[c].angle = 0) <=> (Ry(c) = Ly(c))
              /\ (Lx(c) = 0 /\ Ly(c) = 0 /\ Rx(c) = 10 /\ Ry(c) = 10) =>
                    (frame[c].angle = 5729 /\ frame[c].angle # 4500)
        /\ Rotated(c) =>
              /\ frame[c].rotation = -frame[c].angle
              /\ frame[c].angle = 0 => frame[c].final_size = frame[c].rectangle.src

C9_Witness ==
    \E c \in Calls :
        /\ pc[c] = "done"
        /\ HasFace(c)
        /\ Lx(c) = 0 /\ Ly(c) = 0 /\ Rx(c) = 10 /\ Ry(c) = 10
        /\ frame[c].angle = 5729
        /\ frame[c].final_size # frame[c].rectangle.src

(***************************************************************************)
(* C10.  A call that ends in IndexError or ZeroDivisionError leaves every  *)
(* pixel of its image as it was at call entry.                             *)
(***************************************************************************)
C10_FaultLeavesImageUntouched ==
    \A c \in Calls :
        pc[c] = "fault" =>
            /\ result[c].kind \in {"IndexError", "ZeroDivisionError"}
            /\ \A p \in Pixels : sample[c][p] = entry[c][p]

\* a division fault on a call whose rectangle, had it been pasted where the
\* eyes are, would have covered pixels of the image
C10_Witness ==
    \E c \in Calls :
        /\ pc[c] = "fault"
        /\ result[c].kind = "ZeroDivisionError"
        /\ entry[c] = Checker
        /\ frame[c].rectangle.size[1] > 0 /\ frame[c].rectangle.size[2] > 0

(***************************************************************************)
(* C4.  Two calls on equal images whose detector results agree on whether  *)
(* there is a first face and on its entries 0, 1, 2, 5, 6, 7 end the same  *)
(* way with the same pixels, whatever the bounding boxes, the entries 3,   *)
(* 4, 8, 9 and the later faces are.                                        *)
(***************************************************************************)
AgreeOnReadEntries(d1, d2) ==
    \/ Len(d1.landmarks) = 0 /\ Len(d2.landmarks) = 0
    \/ /\ Len(d1.landmarks) > 0 /\ Len(d2.landmarks) > 0
       /\ \A i \in {0, 1, 2, 5, 6, 7} :
             /\ (i < Len(d1.landmarks[1])) <=> (i < Len(d2.landmarks[1]))
             /\ i < Len(d1.landmarks[1]) => d1.landmarks[1][i + 1] = d2.landmarks[1][i + 1]

C4_OutcomeDependsOnlyOnReadEntries ==
    \A c1 \in Calls, c2 \in Calls :
        ( /\ Ended(c1) /\ Ended(c2)
          /\ entry[c1] = entry[c2]
          /\ AgreeOnReadEntries(detection[c1], detection[c2]) )
        => Outcome(c1) = Outcome(c2)

\* two calls that pasted, their detector results differing in the bounding
\* boxes, the later faces, the length of the first face's list and its entry 3
C4_Witness ==
    /\ pc[1] = "done" /\ pc[2] = "done"
    /\ entry[1] = entry[2]
    /\ AgreeOnReadEntries(detection[1], detection[2])
    /\ HasFace(1)
    /\ detection[1].bounding_boxes # detection[2].bounding_boxes
    /\ Len(detection[1].landmarks) # Len(detection[2].landmarks)
    /\ Len(Face(1)) # Len(Face(2))
    /\ Face(1)[4] # Face(2)[4]
    /\ sample[1] # entry[1]
    /\ sample[1] = sample[2]

(***************************************************************************)
(* C8.  Two calls on distinct images, their steps interleaved in any       *)
(* order: each ends the way it ends when run alone, with the same pixels.  *)
(***************************************************************************)
C8_InterleavedCallsEndAsAlone ==
    \A c \in Calls :
        Ended(c) => Outcome(c) = Alone(entry[c], detection[c])

\* both calls pasted, on different detector results, and call 2 ran its
\* steps while call 1 was between its own
C8_Witness ==
    /\ pc[1] = "paste" /\ pc[2] = "done"
    /\ detection[1] # detection[2]
    /\ sample[2] # entry[2]
    /\ frame[1].rectangle # frame[2].rectangle

====
